---------------------------- MODULE Spec2Model ----------------------------
(***************************************************************************)
(* medic: a readiness probe for Ethereum nodes.                            *)
(*                                                                         *)
(* The on-demand program answers GET /ready by running one health          *)
(* evaluation per request (nodeHealth): latest-block query, peer-count     *)
(* query, client detection (web3_clientVersion) and, for Nethermind, the   *)
(* vendor GET /health document.  Every outbound call is a suspension       *)
(* point: the actions below are the code between two such points.          *)
(*                                                                         *)
(* Time is counted in ticks of 1/TicksPerSecond second, so that the        *)
(* float64 lag of blockDelta keeps its sub-second part.                    *)
(***************************************************************************)
EXTENDS Integers, Sequences, FiniteSets, TLC

(***************************************************************************)
(* Bounds of the model.                                                    *)
(***************************************************************************)
\* resolution of the wall clock, in ticks per second
TicksPerSecond == 2
\* the configured max-seconds-behind
MaxThreshold == 1
\* the peer counts the node reports are 0..MaxPeers; min-peers is 0 or MaxPeers
MaxPeers == 1
\* width of the unsigned integers of the uint64 build, scaled down from 64
UintBits == 16
\* retryClient.RetryMax of the startup probe, scaled down from 50
RetryMax == 2

\* the /ready requests in flight at once: net/http runs readinessHandler in
\* a goroutine per request
Requests == {1, 2}

\* the lag observed by one block query, in ticks: from a block one second in
\* the future to a block one second past the threshold
LagTicks == (0 - TicksPerSecond)..((MaxThreshold + 1) * TicksPerSecond)

PeerCounts == 0..MaxPeers

\* the version strings the node answers web3_clientVersion with
Versions == {"Nethermind/v1.25", "erigon/2.0", "reth/v1.0", "Geth/v1.13"}

\* the Errors list of a /health document
ErrorLists == {<<>>, <<"Db is corrupted">>}

\* the body of a GET /health answer: malformed JSON, or a JSON object in
\* which the node-health data is present or absent
HealthDocs ==
    [wellFormed : {TRUE}, present : {TRUE}, status : {"Healthy", "Unhealthy"},
     IsSyncing : BOOLEAN, Errors : ErrorLists]
HealthBodies ==
    HealthDocs
    \cup {[wellFormed |-> TRUE, present |-> FALSE, status |-> "",
           IsSyncing |-> FALSE, Errors |-> <<>>],
          [wellFormed |-> FALSE, present |-> FALSE, status |-> "",
           IsSyncing |-> FALSE, Errors |-> <<>>]}

NoBody == [wellFormed |-> FALSE, present |-> FALSE, status |-> "",
           IsSyncing |-> FALSE, Errors |-> <<>>]

\* the builds of the on-demand program, each with the result its
\* float64 -> uint64 conversion gives for a value below zero
Builds == {<<"int", "none">>, <<"uint64", "wrap">>, <<"uint64", "saturate">>,
           <<"bool", "none">>}

(***************************************************************************)
(* State.                                                                  *)
(***************************************************************************)
VARIABLES
    maxSecondsBehind,   \* viper "max-seconds-behind"
    minPeers,           \* viper "min-peers"
    build,              \* the program compiled in: nodeHealth returning the lag
                        \* as "int" or as "uint64", or checkNodeHealth with
                        \* boolean sub-checks ("bool")
    floatToUint,        \* what uint64(negative float64) yields on this build
    pc,                 \* per request: where its handler goroutine is
    obs,                \* per request: what its queries observed
    sent,               \* per request: the outbound queries issued, in order
    loc,                \* per request: the locals of nodeHealth
    healthy,            \* per request: the value nodeHealth returned
    code,               \* per request: the status written by readinessHandler
    dPc,                \* detector under test: "off", "call" or "done"
    dVariant,           \* detector under test: which DetectClientType
    dVersion,           \* detector under test: the version string it is given
    dResult,            \* detector under test: what it returned
    proc,               \* where main is: "probe", "listen", "serving", or
                        \* ended: "exited" (log.Fatal) or "panicked"
    attempt,            \* retries the startup probe has used up, while it runs
    isNodeHealthy,      \* polling program: the package-level last verdict
    pollers,            \* polling program: goroutines running checkNodeHealth
    nodeReport,         \* polling program: what the node's /health reports
    blockFailures       \* history: the requests completed after a failed
                        \* block query

vars == <<maxSecondsBehind, minPeers, build, floatToUint, pc, obs, sent, loc,
          healthy, code, dPc, dVariant, dVersion, dResult, proc, attempt,
          isNodeHealthy, pollers, nodeReport, blockFailures>>

config == <<maxSecondsBehind, minPeers, build, floatToUint>>

detectVars == <<dPc, dVariant, dVersion, dResult>>

handlerVars == <<pc, obs, sent, loc, healthy, code>>

mainVars == <<proc, attempt>>

pollVars == <<isNodeHealthy, pollers, nodeReport>>

NoObs == [block |-> "none", lag |-> 0, peer |-> "none", peers |-> 0,
          detect |-> "none", version |-> "", health |-> "none", body |-> NoBody]

NoLoc == [blockDelta |-> 0, peerCount |-> 0, clientType |-> "", tooFar |-> FALSE,
          isClientHealthy |-> FALSE]

NoResult == [clientType |-> "", err |-> FALSE]

\* the answer of GET /health to the polling program, as long as none is
\* looked at
NoReport == [outcome |-> "err", synced |-> "", min_peer_count |-> "",
             max_seconds_behind |-> "", check_block |-> ""]

(***************************************************************************)
(* Pure functions of the code.                                             *)
(***************************************************************************)
\* strings.Contains
Contains(s, substr) ==
    \E i \in 1..(Len(s) - Len(substr) + 1) :
        SubSeq(s, i, i + Len(substr) - 1) = substr

\* mutant: the erigon marker is tested before the Nethermind marker
ClassifyVersionErigonFirst(result) ==
    IF Contains(result, "erigon") THEN "Erigon"
    ELSE IF Contains(result, "Nethermind") THEN "Nethermind"
    ELSE IF Contains(result, "reth") THEN "Reth"
    ELSE "Unknown"

\* the switch of DetectClientType on the decoded result
ClassifyVersion(result) ==
    IF Contains(result, "Nethermind") THEN "Nethermind"
    ELSE IF Contains(result, "erigon") THEN "Erigon"
    ELSE IF Contains(result, "reth") THEN "Reth"
    ELSE "Unknown"

\* the one test of the earlier DetectClientType on the decoded result
ClassifyNethermindOnly(result) ==
    IF Contains(result, "Nethermind") THEN "Nethermind" ELSE "Unknown"

\* mutant: a failed call is reported as the Unknown client type
DetectClientTypeUnknownOnError(outcome, result) ==
    IF outcome = "ok"
    THEN [clientType |-> ClassifyVersion(result), err |-> FALSE]
    ELSE [clientType |-> "Unknown", err |-> TRUE]

\* DetectClientType: (client type, err) from the outcome of the POST
DetectClientType(outcome, result) ==
    IF outcome = "ok"
    THEN [clientType |-> ClassifyVersion(result), err |-> FALSE]
    ELSE [clientType |-> "", err |-> TRUE]

\* int(delta): a float64 number of seconds truncated toward zero
TruncSeconds(ticks) ==
    IF ticks >= 0 THEN ticks \div TicksPerSecond
    ELSE 0 - ((0 - ticks) \div TicksPerSecond)

RECURSIVE Pow2(_)
Pow2(n) == IF n = 0 THEN 1 ELSE 2 * Pow2(n - 1)

\* uint64(delta): truncation when the value is representable; for a value
\* below zero the result depends on the build (wraps on amd64, 0 on arm64)
ToUint(ticks) ==
    IF TruncSeconds(ticks) >= 0 THEN TruncSeconds(ticks)
    ELSE IF floatToUint = "wrap" THEN Pow2(UintBits) + TruncSeconds(ticks)
    ELSE 0

\* delta > float64(maxSecondsBehind)
TooFarBehind(ticks) == ticks > maxSecondsBehind * TicksPerSecond

\* blockDelta: (delta, err) and whether "Node is too far behind" was logged.
\* In the too-far branch the err returned is the nil err of BlockByNumber.
BlockDelta(outcome, ticks) ==
    IF outcome # "ok"
    THEN [value |-> 0, err |-> TRUE, tooFar |-> FALSE]
    ELSE [value |-> IF build = "uint64" THEN ToUint(ticks) ELSE TruncSeconds(ticks),
          err |-> FALSE,
          tooFar |-> TooFarBehind(ticks)]

\* checkNodePeers: (count, err); below min-peers the err returned is the nil
\* err of PeerCount
CheckNodePeers(outcome, count) ==
    IF outcome # "ok"
    THEN [value |-> 0, err |-> TRUE]
    ELSE [value |-> count, err |-> FALSE]

\* mutant: the error of Decode is dropped and the zero document returned
NethermindHealthCheckNoDecodeError(outcome, body) ==
    IF outcome # "ok"
    THEN [err |-> TRUE, status |-> "", IsSyncing |-> FALSE, Errors |-> <<>>]
    ELSE [err |-> FALSE,
          status |-> IF body.wellFormed /\ body.present THEN body.status ELSE "",
          IsSyncing |-> IF body.wellFormed /\ body.present THEN body.IsSyncing ELSE FALSE,
          Errors |-> IF body.wellFormed /\ body.present THEN body.Errors ELSE <<>>]

\* NethermindHealthCheck: GET /health and json Decode into NethermindHealth;
\* fields absent from the document keep their zero values
NethermindHealthCheck(outcome, body) ==
    IF outcome # "ok" \/ ~body.wellFormed
    THEN [err |-> TRUE, status |-> "", IsSyncing |-> FALSE, Errors |-> <<>>]
    ELSE [err |-> FALSE,
          status |-> IF body.present THEN body.status ELSE "",
          IsSyncing |-> IF body.present THEN body.IsSyncing ELSE FALSE,
          Errors |-> IF body.present THEN body.Errors ELSE <<>>]

\* CheckNethermindHealth: (healthy, err) from GET /health
CheckNethermindHealth(outcome, body) ==
    LET health == NethermindHealthCheck(outcome, body) IN
    IF health.err THEN [value |-> FALSE, err |-> TRUE]
    ELSE IF health.status = "Healthy" /\ ~health.IsSyncing /\ Len(health.Errors) = 0
    THEN [value |-> TRUE, err |-> FALSE]
    ELSE [value |-> FALSE, err |-> TRUE]

\* checkNodePeers of checkNodeHealth: a failed PeerCount is logged and the
\* count it returned, 0, is compared
CheckNodePeersBool(outcome, count) ==
    LET peerCount == IF outcome = "ok" THEN count ELSE 0 IN
    ~(peerCount < minPeers)

\* mutant: the lag has to be below max-seconds-behind
GenericVerdictStrictLag(peerCount, blockDelta) ==
    peerCount >= minPeers /\ blockDelta < maxSecondsBehind

\* nodeHealth, clientType != "Nethermind"
GenericVerdict(peerCount, blockDelta) ==
    peerCount >= minPeers /\ blockDelta <= maxSecondsBehind

\* mutant: the Errors list of the document is not looked at
NethermindVerdictNoErrors(health, peerCount, blockDelta) ==
    IF health.err THEN FALSE
    ELSE IF health.IsSyncing THEN FALSE
    ELSE peerCount >= minPeers /\ blockDelta <= maxSecondsBehind

\* nodeHealth, clientType == "Nethermind"
NethermindVerdict(health, peerCount, blockDelta) ==
    IF health.err THEN FALSE
    ELSE IF Len(health.Errors) # 0 THEN FALSE
    ELSE IF health.IsSyncing THEN FALSE
    ELSE ~health.IsSyncing
         /\ peerCount >= minPeers
         /\ blockDelta <= maxSecondsBehind

\* mutant: 200 is written whatever the verdict
StatusAlwaysOK(verdict) == 200

\* readinessHandler: the status written for a verdict
StatusFor(verdict) == IF verdict THEN 200 ELSE 503

(***************************************************************************)
(* The on-demand program: readinessHandler -> nodeHealth.                  *)
(***************************************************************************)
Init ==
    /\ maxSecondsBehind = MaxThreshold
    /\ minPeers \in {0, MaxPeers}
    /\ \E b \in Builds : build = b[1] /\ floatToUint = b[2]
    /\ pc = [r \in Requests |-> "idle"]
    /\ obs = [r \in Requests |-> NoObs]
    /\ sent = [r \in Requests |-> <<>>]
    /\ loc = [r \in Requests |-> NoLoc]
    /\ healthy = [r \in Requests |-> FALSE]
    /\ code = [r \in Requests |-> 0]
    /\ dPc = "off"
    /\ dVariant = "utils.go"
    /\ dVersion = ""
    /\ dResult = NoResult
    /\ proc = IF build = "int" THEN "probe" ELSE "listen"
    /\ attempt = 0
    /\ isNodeHealthy = FALSE
    /\ pollers = {}
    /\ nodeReport = NoReport
    /\ blockFailures = {}

\* main of the nodeHealth program with lag as int, up to the deferred
\* resp.Body.Close(): one attempt of retryClient.Do.  A failed attempt is
\* retried up to RetryMax times; then Do returns (nil, err), the err is
\* logged and resp.Body dereferences the nil resp
RetryClientDo ==
    /\ proc = "probe"
    /\ \E outcome \in {"ok", "err"} :
        IF outcome = "ok"
        THEN proc' = "listen" /\ attempt' = 0
        ELSE IF attempt < RetryMax
        THEN proc' = proc /\ attempt' = attempt + 1
        ELSE proc' = "panicked" /\ attempt' = 0
    /\ UNCHANGED <<config, pollVars, blockFailures, detectVars, handlerVars>>

\* main: http.HandleFunc, then http.ListenAndServe; when the port cannot
\* be bound the error is logged with log.Fatal and the process exits
ListenAndServe ==
    /\ proc = "listen"
    /\ \E outcome \in {"ok", "bind_err"} :
        proc' = IF outcome = "ok" THEN "serving" ELSE "exited"
    /\ UNCHANGED <<config, attempt, pollVars, blockFailures, detectVars, handlerVars>>

\* mutant: the verdict is kept in a package-level variable that the
\* evaluation of another request, still in progress, has reset to false
AnswerSharedVerdict(r, verdict) ==
    LET shared == verdict /\ \A q \in Requests \ {r} :
                                 pc[q] \in {"idle", "answered", "panicked"} IN
    /\ healthy' = [healthy EXCEPT ![r] = shared]
    /\ code' = [code EXCEPT ![r] = StatusFor(shared)]
    /\ pc' = [pc EXCEPT ![r] = "answered"]

\* nodeHealth returns verdict and readinessHandler writes the status
Answer(r, verdict) ==
    /\ healthy' = [healthy EXCEPT ![r] = verdict]
    /\ code' = [code EXCEPT ![r] = StatusFor(verdict)]
    /\ pc' = [pc EXCEPT ![r] = "answered"]

\* the calling goroutine issues an outbound query and blocks on its answer
Send(r, query, waitAt) ==
    /\ sent' = [sent EXCEPT ![r] = Append(@, query)]
    /\ pc' = [pc EXCEPT ![r] = waitAt]
    /\ UNCHANGED <<healthy, code>>

\* GET /ready arrives: readinessHandler calls nodeHealth, which calls
\* blockDelta: ethclient.Dial, then BlockByNumber
ReadinessHandler(r) ==
    /\ proc = "serving"
    /\ pc[r] = "idle"
    /\ build \in {"int", "uint64"}
    /\ \E dial \in {"ok", "dial_err"} :
        IF BlockDelta(dial, 0).err
        THEN /\ obs' = [obs EXCEPT ![r].block = dial]
             /\ Answer(r, FALSE)
             /\ UNCHANGED sent
        ELSE /\ Send(r, "block", "wait_block")
             /\ UNCHANGED obs
    /\ UNCHANGED <<config, mainVars, pollVars, blockFailures, detectVars, loc>>

\* BlockByNumber returns: the rest of blockDelta, the err check of
\* nodeHealth, then checkNodePeers up to PeerCount
BlockReply(r) ==
    /\ pc[r] = "wait_block"
    /\ \E outcome \in {"ok", "err"}, lag \in LagTicks, dial \in {"ok", "dial_err"} :
        LET bd == BlockDelta(outcome, lag) IN
        /\ outcome = "err" => lag = 0 /\ dial = "ok"
        /\ IF bd.err
           THEN /\ obs' = [obs EXCEPT ![r].block = outcome]
                /\ loc' = loc
                /\ Answer(r, FALSE)
                /\ UNCHANGED sent
           ELSE /\ loc' = [loc EXCEPT ![r].blockDelta = bd.value,
                                      ![r].tooFar = bd.tooFar]
                /\ IF CheckNodePeers(dial, 0).err
                   THEN /\ obs' = [obs EXCEPT ![r].block = outcome, ![r].lag = lag,
                                              ![r].peer = dial]
                        /\ Answer(r, FALSE)
                        /\ UNCHANGED sent
                   ELSE /\ obs' = [obs EXCEPT ![r].block = outcome, ![r].lag = lag]
                        /\ Send(r, "peers", "wait_peers")
    /\ UNCHANGED <<config, mainVars, pollVars, blockFailures, detectVars>>

\* PeerCount returns: the rest of checkNodePeers, the err check of
\* nodeHealth, then DetectClientType up to http.Post
PeerReply(r) ==
    /\ pc[r] = "wait_peers"
    /\ \E outcome \in {"ok", "err"}, count \in PeerCounts :
        LET cp == CheckNodePeers(outcome, count) IN
        /\ outcome = "err" => count = 0
        /\ obs' = [obs EXCEPT ![r].peer = outcome, ![r].peers = count]
        /\ IF cp.err
           THEN /\ Answer(r, FALSE)
                /\ UNCHANGED <<sent, loc>>
           ELSE /\ loc' = [loc EXCEPT ![r].peerCount = cp.value]
                /\ Send(r, "detect", "wait_detect")
    /\ UNCHANGED <<config, mainVars, pollVars, blockFailures, detectVars>>

\* http.Post of web3_clientVersion returns: the rest of DetectClientType,
\* then the branch of nodeHealth on the client type
DetectReply(r) ==
    /\ pc[r] = "wait_detect"
    /\ \E outcome \in {"ok", "transport_err", "decode_err"}, version \in Versions \cup {""} :
        LET d == DetectClientType(outcome, version) IN
        /\ (outcome = "ok") = (version # "")
        /\ obs' = [obs EXCEPT ![r].detect = outcome, ![r].version = version]
        /\ loc' = [loc EXCEPT ![r].clientType = d.clientType]
        /\ IF d.clientType # "Nethermind"
           THEN /\ Answer(r, GenericVerdict(loc[r].peerCount, loc[r].blockDelta))
                /\ UNCHANGED sent
           ELSE Send(r, "health", "wait_health")
    /\ UNCHANGED <<config, mainVars, pollVars, blockFailures, detectVars>>

\* http.Get of /health returns: the rest of NethermindHealthCheck, then the
\* Nethermind branch of nodeHealth
HealthReply(r) ==
    /\ pc[r] = "wait_health"
    /\ \E outcome \in {"ok", "err"}, body \in HealthBodies :
        LET health == NethermindHealthCheck(outcome, body) IN
        /\ outcome = "err" => body = NoBody
        /\ obs' = [obs EXCEPT ![r].health = outcome, ![r].body = body]
        /\ Answer(r, NethermindVerdict(health, loc[r].peerCount, loc[r].blockDelta))
    /\ UNCHANGED <<config, mainVars, pollVars, blockFailures, detectVars, sent, loc>>

\* readinessHandler returns: the locals of the call are gone
Return(r) ==
    /\ pc[r] \in {"answered", "panicked"}
    /\ pc' = [pc EXCEPT ![r] = "idle"]
    /\ obs' = [obs EXCEPT ![r] = NoObs]
    /\ sent' = [sent EXCEPT ![r] = <<>>]
    /\ loc' = [loc EXCEPT ![r] = NoLoc]
    /\ healthy' = [healthy EXCEPT ![r] = FALSE]
    /\ code' = [code EXCEPT ![r] = 0]

\* mutant: the locals of nodeHealth are package-level variables, which a
\* returning handler resets for every request
CloseSharedLocals(r) ==
    /\ pc[r] \in {"answered", "panicked"}
    /\ pc' = [pc EXCEPT ![r] = "idle"]
    /\ obs' = [obs EXCEPT ![r] = NoObs]
    /\ sent' = [sent EXCEPT ![r] = <<>>]
    /\ loc' = [q \in Requests |-> NoLoc]
    /\ healthy' = [healthy EXCEPT ![r] = FALSE]
    /\ code' = [code EXCEPT ![r] = 0]
    /\ UNCHANGED <<config, mainVars, pollVars, blockFailures, detectVars>>

\* the response is written and the handler goroutine ends
Close(r) ==
    /\ Return(r)
    /\ UNCHANGED <<config, mainVars, pollVars, blockFailures, detectVars>>

(***************************************************************************)
(* The on-demand program with boolean sub-checks:                          *)
(* readinessHandler -> checkNodeHealth -> checkBlockDelta, checkNodePeers. *)
(***************************************************************************)
\* a nil pointer is dereferenced: the handler goroutine panics, net/http
\* recovers it and closes the connection without a status
Panic(r) ==
    /\ pc' = [pc EXCEPT ![r] = "panicked"]
    /\ UNCHANGED <<healthy, code, sent>>

\* checkBlockDelta up to BlockByNumber: a failed Dial is logged and the nil
\* client is used
CallCheckBlockDelta(r, dial) ==
    IF dial = "ok" THEN Send(r, "block", "c_wait_block") ELSE Panic(r)

\* GET /ready arrives: readinessHandler calls checkNodeHealth, which calls
\* DetectClientType
BoolReadinessHandler(r) ==
    /\ proc = "serving"
    /\ pc[r] = "idle"
    /\ build = "bool"
    /\ Send(r, "detect", "c_wait_detect")
    /\ UNCHANGED <<config, mainVars, pollVars, blockFailures, detectVars, obs, loc>>

\* http.Post of web3_clientVersion returns: the switch of checkNodeHealth
BoolDetectReply(r) ==
    /\ pc[r] = "c_wait_detect"
    /\ \E outcome \in {"ok", "transport_err", "decode_err"},
          version \in Versions \cup {""}, dial \in {"ok", "dial_err"} :
        LET d == DetectClientType(outcome, version) IN
        /\ (outcome = "ok") = (version # "")
        /\ IF d.clientType = "Nethermind"
           THEN /\ dial = "ok"
                /\ obs' = [obs EXCEPT ![r].detect = outcome, ![r].version = version]
                /\ loc' = [loc EXCEPT ![r].clientType = d.clientType]
                /\ Send(r, "health", "c_wait_health")
           ELSE /\ obs' = [obs EXCEPT ![r].detect = outcome, ![r].version = version,
                                      ![r].block = IF dial = "ok" THEN @ ELSE dial]
                /\ loc' = [loc EXCEPT ![r].clientType = d.clientType,
                                      ![r].isClientHealthy = TRUE]
                /\ CallCheckBlockDelta(r, dial)
    /\ UNCHANGED <<config, mainVars, pollVars, blockFailures, detectVars>>

\* http.Get of /health returns: the rest of CheckNethermindHealth, then
\* isClientHealthy && checkBlockDelta(...) && checkNodePeers(...)
BoolHealthReply(r) ==
    /\ pc[r] = "c_wait_health"
    /\ \E outcome \in {"ok", "err"}, body \in HealthBodies, dial \in {"ok", "dial_err"} :
        LET h == CheckNethermindHealth(outcome, body) IN
        /\ outcome = "err" => body = NoBody
        /\ loc' = [loc EXCEPT ![r].isClientHealthy = h.value]
        /\ IF ~h.value
           THEN /\ dial = "ok"
                /\ obs' = [obs EXCEPT ![r].health = outcome, ![r].body = body]
                /\ Answer(r, FALSE)
                /\ UNCHANGED sent
           ELSE /\ obs' = [obs EXCEPT ![r].health = outcome, ![r].body = body,
                                      ![r].block = IF dial = "ok" THEN @ ELSE dial]
                /\ CallCheckBlockDelta(r, dial)
    /\ UNCHANGED <<config, mainVars, pollVars, blockFailures, detectVars>>

\* BlockByNumber returns: a failed call is logged and the nil block is
\* used; otherwise the rest of checkBlockDelta, then checkNodePeers up to
\* PeerCount
BoolBlockReply(r) ==
    /\ pc[r] = "c_wait_block"
    /\ \E outcome \in {"ok", "err"}, lag \in LagTicks, dial \in {"ok", "dial_err"} :
        /\ outcome = "err" => lag = 0 /\ dial = "ok"
        /\ loc' = [loc EXCEPT ![r].tooFar = outcome = "ok" /\ TooFarBehind(lag)]
        /\ IF outcome # "ok"
           THEN /\ obs' = [obs EXCEPT ![r].block = outcome]
                /\ Panic(r)
           ELSE IF TooFarBehind(lag)
           THEN /\ dial = "ok"
                /\ obs' = [obs EXCEPT ![r].block = outcome, ![r].lag = lag]
                /\ Answer(r, FALSE)
                /\ UNCHANGED sent
           ELSE IF dial # "ok"
           THEN /\ obs' = [obs EXCEPT ![r].block = outcome, ![r].lag = lag,
                                      ![r].peer = dial]
                /\ Panic(r)
           ELSE /\ obs' = [obs EXCEPT ![r].block = outcome, ![r].lag = lag]
                /\ Send(r, "peers", "c_wait_peers")
    /\ UNCHANGED <<config, mainVars, pollVars, blockFailures, detectVars>>

\* PeerCount returns: the rest of checkNodePeers and of checkNodeHealth
BoolPeerReply(r) ==
    /\ pc[r] = "c_wait_peers"
    /\ \E outcome \in {"ok", "err"}, count \in PeerCounts :
        /\ outcome = "err" => count = 0
        /\ obs' = [obs EXCEPT ![r].peer = outcome, ![r].peers = count]
        /\ loc' = [loc EXCEPT ![r].peerCount = count]
        /\ Answer(r, CheckNodePeersBool(outcome, count))
    /\ UNCHANGED <<config, mainVars, pollVars, blockFailures, detectVars, sent>>

Next ==
    \/ RetryClientDo
    \/ ListenAndServe
    \/ \E r \in Requests : ReadinessHandler(r)
    \/ \E r \in Requests : BlockReply(r)
    \/ \E r \in Requests : PeerReply(r)
    \/ \E r \in Requests : DetectReply(r)
    \/ \E r \in Requests : HealthReply(r)
    \/ \E r \in Requests : BoolReadinessHandler(r)
    \/ \E r \in Requests : BoolDetectReply(r)
    \/ \E r \in Requests : BoolHealthReply(r)
    \/ \E r \in Requests : BoolBlockReply(r)
    \/ \E r \in Requests : BoolPeerReply(r)
    \/ \E r \in Requests : Close(r)

Spec == Init /\ [][Next]_vars

(***************************************************************************)
(* DetectClientType on its own: the two detectors of the repository, each  *)
(* applied to a version string built from marker fragments.                *)
(***************************************************************************)
\* fragments a version string is made of
MaxFragments == 2

Fragments == {"Nethermind", "nethermind", "erigon", "Erigon", "reth", "Reth",
              "Geth", "/v1.0"}

RECURSIVE Concats(_)
Concats(n) ==
    IF n = 0 THEN {""}
    ELSE Concats(n - 1) \cup {s \o f : s \in Concats(n - 1), f \in Fragments}

VersionStrings == Concats(MaxFragments)

Detectors == {"utils.go", "part_000"}

\* the DetectClientType of the chosen file
Detect(variant, outcome, result) ==
    IF outcome # "ok" THEN DetectClientType(outcome, result)
    ELSE IF variant = "utils.go" THEN DetectClientType(outcome, result)
    ELSE [clientType |-> ClassifyNethermindOnly(result), err |-> FALSE]

InitDetect ==
    /\ maxSecondsBehind = MaxThreshold
    /\ minPeers = MaxPeers
    /\ build = "int"
    /\ floatToUint = "none"
    /\ pc = [r \in Requests |-> "idle"]
    /\ obs = [r \in Requests |-> NoObs]
    /\ sent = [r \in Requests |-> <<>>]
    /\ loc = [r \in Requests |-> NoLoc]
    /\ healthy = [r \in Requests |-> FALSE]
    /\ code = [r \in Requests |-> 0]
    /\ dPc = "call"
    /\ dVariant \in Detectors
    /\ dVersion \in VersionStrings
    /\ dResult = NoResult
    /\ proc = "serving"
    /\ attempt = 0
    /\ isNodeHealthy = FALSE
    /\ pollers = {}
    /\ nodeReport = NoReport
    /\ blockFailures = {}

\* the node answers web3_clientVersion with dVersion, or the call fails
DetectCall ==
    /\ dPc = "call"
    /\ \E outcome \in {"ok", "transport_err", "decode_err"} :
        dResult' = Detect(dVariant, outcome, IF outcome = "ok" THEN dVersion ELSE "")
    /\ dPc' = "done"
    /\ UNCHANGED <<config, mainVars, pollVars, blockFailures, handlerVars,
                   dVariant, dVersion>>

NextDetect == DetectCall

SpecDetect == InitDetect /\ [][NextDetect]_vars

\* The program's own steps are scheduled by the Go runtime: a handler that
\* has written its status ends.  The answers of the node are not the
\* program's to schedule, and no outbound call carries a timeout.
FairSpec == Spec /\ \A r \in Requests : WF_vars(Close(r))

(***************************************************************************)
(* The polling program (main.go): readinessHandler answers from the        *)
(* package-level isNodeHealthy, which checkNodeHealth assigns in a loop.   *)
(* main registers the handler and serves; it has no go statement and no    *)
(* call of checkNodeHealth, so no goroutine ever runs the loop.            *)
(***************************************************************************)
\* the status words of the node's /health answer
StatusWords == {"HEALTHY", "DISABLED", "ERROR: not synced"}

\* what GET /health of the node gives: a request error, an undecodable
\* body, or a HealthResponse
Reports ==
    [outcome : {"ok"}, synced : StatusWords, min_peer_count : StatusWords,
     max_seconds_behind : StatusWords, check_block : StatusWords]
    \cup {[NoReport EXCEPT !.outcome = o] : o \in {"err", "decode_err"}}

isHealthyOrDisabled(status) == status = "HEALTHY" \/ status = "DISABLED"

\* checkNodeHealth: the value one iteration of the loop assigns to
\* isNodeHealthy
CheckNodeHealth(report) ==
    IF report.outcome # "ok" THEN FALSE
    ELSE /\ isHealthyOrDisabled(report.synced)
         /\ isHealthyOrDisabled(report.min_peer_count)
         /\ isHealthyOrDisabled(report.max_seconds_behind)
         /\ isHealthyOrDisabled(report.check_block)

InitPoll ==
    /\ maxSecondsBehind = MaxThreshold
    /\ minPeers = MaxPeers
    /\ build = "poll"
    /\ floatToUint = "none"
    /\ pc = [r \in Requests |-> "idle"]
    /\ obs = [r \in Requests |-> NoObs]
    /\ sent = [r \in Requests |-> <<>>]
    /\ loc = [r \in Requests |-> NoLoc]
    /\ healthy = [r \in Requests |-> FALSE]
    /\ code = [r \in Requests |-> 0]
    /\ dPc = "off"
    /\ dVariant = "utils.go"
    /\ dVersion = ""
    /\ dResult = NoResult
    /\ proc = "listen"
    /\ attempt = 0
    /\ isNodeHealthy = FALSE
    /\ pollers = {}
    /\ nodeReport \in Reports
    /\ blockFailures = {}

\* the node's health changes
NodeChange ==
    /\ \E report \in Reports \ {nodeReport} : nodeReport' = report
    /\ UNCHANGED <<config, mainVars, isNodeHealthy, pollers, blockFailures,
                   detectVars, handlerVars>>

\* GET /ready arrives: readinessHandler reads isNodeHealthy and writes the
\* status
PollReadinessHandler(r) ==
    /\ proc = "serving"
    /\ pc[r] = "idle"
    /\ build = "poll"
    /\ Answer(r, isNodeHealthy)
    /\ UNCHANGED <<config, mainVars, pollVars, blockFailures, detectVars,
                   obs, sent, loc>>

NextPoll ==
    \/ ListenAndServe
    \/ NodeChange
    \/ \E r \in Requests : PollReadinessHandler(r)
    \/ \E r \in Requests : Close(r)

SpecPoll == InitPoll /\ [][NextPoll]_vars

\* Probes keep arriving and a handler that is running finishes; the node
\* changes its health as it likes.
FairSpecPoll ==
    SpecPoll /\ \A r \in Requests :
                    WF_vars(PollReadinessHandler(r)) /\ WF_vars(Close(r))

(***************************************************************************)
(* The nodeHealth program with lag as int (part_004), with a history of    *)
(* the requests that were completed after their block query had failed.    *)
(***************************************************************************)
InitRecover == Init /\ build = "int"

\* Close, recording in blockFailures a request whose Dial or BlockByNumber
\* failed
CloseRecorded(r) ==
    /\ Return(r)
    /\ blockFailures' = IF obs[r].block \in {"dial_err", "err"}
                        THEN blockFailures \cup {r}
                        ELSE blockFailures
    /\ UNCHANGED <<config, mainVars, pollVars, detectVars>>

NextRecover ==
    \/ RetryClientDo
    \/ ListenAndServe
    \/ \E r \in Requests : ReadinessHandler(r)
    \/ \E r \in Requests : BlockReply(r)
    \/ \E r \in Requests : PeerReply(r)
    \/ \E r \in Requests : DetectReply(r)
    \/ \E r \in Requests : HealthReply(r)
    \/ \E r \in Requests : CloseRecorded(r)

SpecRecover == InitRecover /\ [][NextRecover]_vars

(***************************************************************************)
(* Vocabulary of the properties.                                           *)
(***************************************************************************)
Answered(r) == pc[r] = "answered"

Waiting(r) ==
    pc[r] \in {"wait_block", "wait_peers", "wait_detect", "wait_health",
               "c_wait_detect", "c_wait_health", "c_wait_block", "c_wait_peers"}

NodeHealthBuild == build \in {"int", "uint64"}

\* the node's /health reports every check as HEALTHY or DISABLED
NodeAllHealthy == CheckNodeHealth(nodeReport)

\* the process has ended
Terminated == proc \in {"exited", "panicked"}

BlockFailed(r) == obs[r].block \in {"dial_err", "err"}

PeerFailed(r) == obs[r].peer \in {"dial_err", "err"}

DetectFailed(r) == obs[r].detect \in {"transport_err", "decode_err"}

HealthFailed(r) ==
    \/ obs[r].health = "err"
    \/ obs[r].health = "ok" /\ ~obs[r].body.wellFormed

\* the lag, in ticks, is within max-seconds-behind
LagWithinBound(r) == obs[r].lag <= maxSecondsBehind * TicksPerSecond

PeersWithinBound(r) == obs[r].peers >= minPeers

\* the version string the node reported carries the Nethermind marker
ReportsNethermind(r) ==
    obs[r].detect = "ok" /\ Contains(obs[r].version, "Nethermind")

\* the sync signal of the evaluation's strategy does not block: the generic
\* strategy, or a /health document with IsSyncing false and no Errors
SignalNonBlocking(r) ==
    \/ ~ReportsNethermind(r)
    \/ /\ obs[r].health = "ok"
       /\ obs[r].body.wellFormed
       /\ ~obs[r].body.IsSyncing
       /\ obs[r].body.Errors = <<>>

\* every query the evaluation issued was answered and decoded
AllQueriesOk(r) ==
    /\ obs[r].block = "ok"
    /\ obs[r].peer = "ok"
    /\ obs[r].detect = "ok"
    /\ ReportsNethermind(r) => obs[r].health = "ok" /\ obs[r].body.wellFormed

\* the classification by marker priority: Nethermind, then erigon, then reth
PriorityKind(v) ==
    CASE Contains(v, "Nethermind") -> "Nethermind"
      [] ~Contains(v, "Nethermind") /\ Contains(v, "erigon") -> "Erigon"
      [] ~Contains(v, "Nethermind") /\ ~Contains(v, "erigon") /\ Contains(v, "reth")
            -> "Reth"
      [] OTHER -> "Unknown"

HealthDecoded(r) ==
    ReportsNethermind(r) /\ obs[r].health = "ok" /\ obs[r].body.wellFormed

DocBlocks(r) == obs[r].body.IsSyncing \/ obs[r].body.Errors # <<>>

\* what the evaluation does with a decoded document: in nodeHealth a
\* blocking signal gives unhealthy and 503, a non-blocking one leaves the
\* verdict to the peer and lag comparisons; in checkNodeHealth the signal
\* is isClientHealthy
SignalBlocked(r) ==
    /\ Answered(r) /\ ~healthy[r] /\ code[r] = 503
    /\ build = "bool" => ~loc[r].isClientHealthy

SignalPassed(r) ==
    IF build = "bool" THEN loc[r].isClientHealthy
    ELSE healthy[r] <=> GenericVerdict(loc[r].peerCount, loc[r].blockDelta)

\* the verdict nodeHealth computes from what request r itself observed
OwnVerdict(r) ==
    LET delta == BlockDelta(obs[r].block, obs[r].lag)
        peers == CheckNodePeers(obs[r].peer, obs[r].peers)
        d == DetectClientType(obs[r].detect, obs[r].version) IN
    IF delta.err \/ peers.err THEN FALSE
    ELSE IF d.clientType # "Nethermind"
    THEN GenericVerdict(peers.value, delta.value)
    ELSE NethermindVerdict(NethermindHealthCheck(obs[r].health, obs[r].body),
                           peers.value, delta.value)

IsPrefix(s, t) == Len(s) <= Len(t) /\ SubSeq(t, 1, Len(s)) = s

InSeq(x, s) == \E i \in 1..Len(s) : s[i] = x

QueryOrder == <<"block", "peers", "detect", "health">>

(***************************************************************************)
(* C1.  Fail-closed, as stated: an evaluation in which any query (block,   *)
(* peers, detection, /health) failed never returns healthy.                *)
(***************************************************************************)
C1_FailClosedAnyQuery ==
    \A r \in Requests :
        (NodeHealthBuild /\ Answered(r)
         /\ (BlockFailed(r) \/ PeerFailed(r) \/ DetectFailed(r) \/ HealthFailed(r)))
            => ~healthy[r]

(***************************************************************************)
(* C1, amended.  An evaluation in which the block query, the peer-count    *)
(* query or the /health query failed returns unhealthy and is answered     *)
(* 503; a failed detection query alone does not decide the verdict.        *)
(***************************************************************************)
C1_FailClosed ==
    \A r \in Requests :
        (NodeHealthBuild /\ Answered(r)
         /\ (BlockFailed(r) \/ PeerFailed(r) \/ HealthFailed(r)))
            => ~healthy[r] /\ code[r] = 503

C1_Witness ==
    \E r \in Requests :
        /\ NodeHealthBuild /\ Answered(r)
        /\ obs[r].block = "ok" /\ obs[r].peer = "ok" /\ ReportsNethermind(r)
        /\ LagWithinBound(r) /\ obs[r].lag >= 0 /\ PeersWithinBound(r)
        /\ obs[r].health = "ok" /\ ~obs[r].body.wellFormed
        /\ ~healthy[r]

(***************************************************************************)
(* C2.  Composite rule: with all queries succeeding, the verdict is        *)
(* healthy exactly when lag <= max-seconds-behind, peers >= min-peers and  *)
(* the sync signal does not block.                                         *)
(***************************************************************************)
C2_CompositeRule ==
    \A r \in Requests :
        (build = "int" /\ Answered(r) /\ AllQueriesOk(r))
            => (healthy[r] <=>
                    (LagWithinBound(r) /\ PeersWithinBound(r) /\ SignalNonBlocking(r)))

(***************************************************************************)
(* C3.  A /ready request that is answered gets 200 if and only if its own  *)
(* evaluation returned healthy, and 503 otherwise; no other status is      *)
(* written.                                                                *)
(***************************************************************************)
C3_ReadyStatus ==
    \A r \in Requests :
        /\ Answered(r) => /\ code[r] \in {200, 503}
                          /\ (code[r] = 200) <=> healthy[r]
        /\ ~Answered(r) => code[r] = 0

C3_Witness ==
    /\ \E r \in Requests : Answered(r) /\ healthy[r] /\ code[r] = 200
    /\ \E r \in Requests : Answered(r) /\ ~healthy[r] /\ code[r] = 503

(***************************************************************************)
(* C4.  Client detection, first match wins, as stated: DetectClientType    *)
(* returns Nethermind if the version string contains "Nethermind",         *)
(* otherwise Erigon if it contains "erigon", otherwise Reth if it          *)
(* contains "reth", otherwise Unknown; matching is case-sensitive.         *)
(***************************************************************************)
C4_DetectPriority ==
    (dPc = "done" /\ ~dResult.err) => dResult.clientType = PriorityKind(dVersion)

(***************************************************************************)
(* C4, amended.  The DetectClientType of clients/utils.go classifies as    *)
(* stated.  The DetectClientType of part_000 knows the Nethermind marker   *)
(* only: Nethermind if the string contains "Nethermind", otherwise         *)
(* Unknown.  Both match case-sensitively.                                  *)
(***************************************************************************)
C4_DetectPriorityPerFile ==
    (dPc = "done" /\ ~dResult.err) =>
        /\ dVariant = "utils.go" => dResult.clientType = PriorityKind(dVersion)
        /\ dVariant = "part_000" =>
               dResult.clientType =
                   IF Contains(dVersion, "Nethermind") THEN "Nethermind" ELSE "Unknown"
        /\ dResult.clientType = "Nethermind" <=> Contains(dVersion, "Nethermind")

\* a string with two markers, the lower-ranked one first
C4_Witness ==
    /\ dPc = "done" /\ ~dResult.err /\ dVariant = "utils.go"
    /\ dVersion = "erigonNethermind"
    /\ dResult.clientType = "Nethermind"

(***************************************************************************)
(* C6.  Vendor strategy mapping, as stated: for a node detected as         *)
(* Nethermind whose /health document was decoded, the sync signal blocks   *)
(* exactly when IsSyncing is true or Errors is non-empty, whatever else    *)
(* the document says.                                                      *)
(***************************************************************************)
C6_VendorMapping ==
    \A r \in Requests :
        ((Answered(r) \/ pc[r] \in {"c_wait_block", "c_wait_peers", "panicked"})
         /\ HealthDecoded(r) /\ obs[r].body.present)
            => /\ DocBlocks(r) => SignalBlocked(r)
               /\ ~DocBlocks(r) => SignalPassed(r)

(***************************************************************************)
(* C6, amended.  In nodeHealth the mapping is as stated: the signal blocks *)
(* (unhealthy, 503, whatever the peers and the lag) when IsSyncing is true *)
(* or Errors is non-empty, and otherwise leaves the verdict to the peer    *)
(* and lag comparisons; the status string is not read.  In                 *)
(* CheckNethermindHealth (checkNodeHealth) the signal also blocks when the *)
(* status string is not "Healthy".                                         *)
(***************************************************************************)
C6_VendorMappingPerProgram ==
    \A r \in Requests :
        ((Answered(r) \/ pc[r] \in {"c_wait_block", "c_wait_peers", "panicked"})
         /\ HealthDecoded(r))
            => /\ DocBlocks(r) => SignalBlocked(r)
               /\ (~DocBlocks(r) /\ build # "bool") => SignalPassed(r)
               /\ (~DocBlocks(r) /\ build = "bool") =>
                      (SignalPassed(r) <=>
                          (obs[r].body.present /\ obs[r].body.status = "Healthy"))

C6_Witness ==
    \E r \in Requests :
        /\ build = "int" /\ Answered(r) /\ HealthDecoded(r)
        /\ obs[r].body.present /\ obs[r].body.status = "Unhealthy"
        /\ ~DocBlocks(r)
        /\ healthy[r] /\ code[r] = 200

(***************************************************************************)
(* C5.  Detection never fails the evaluation, as stated: when the          *)
(* web3_clientVersion call errors the detector returns Unknown, the        *)
(* evaluation continues with the generic strategy, the verdict is healthy  *)
(* when lag and peers are within bounds, and /health is not queried.       *)
(***************************************************************************)
C5_DetectionErrorUnknown ==
    \A r \in Requests :
        (build = "int" /\ Answered(r) /\ DetectFailed(r))
            => /\ loc[r].clientType = "Unknown"
               /\ (LagWithinBound(r) /\ PeersWithinBound(r)) => healthy[r]
               /\ ~InSeq("health", sent[r])

(***************************************************************************)
(* C5, amended.  When the web3_clientVersion call errors the detector      *)
(* returns the empty client type with the error; nodeHealth logs it and,   *)
(* the type not being Nethermind, decides by the generic rule: healthy     *)
(* exactly when the truncated lag and the peers are within bounds, and     *)
(* healthy whenever lag <= max-seconds-behind and peers >= min-peers;      *)
(* /health is not queried.                                                 *)
(***************************************************************************)
C5_DetectionErrorGeneric ==
    \A r \in Requests :
        (build = "int" /\ Answered(r) /\ DetectFailed(r))
            => /\ loc[r].clientType = ""
               /\ healthy[r] <=> (PeersWithinBound(r)
                                  /\ TruncSeconds(obs[r].lag) <= maxSecondsBehind)
               /\ (LagWithinBound(r) /\ PeersWithinBound(r)) => healthy[r]
               /\ ~InSeq("health", sent[r])

C5_Witness ==
    \E r \in Requests :
        /\ build = "int" /\ Answered(r) /\ DetectFailed(r)
        /\ LagWithinBound(r) /\ PeersWithinBound(r)
        /\ healthy[r] /\ code[r] = 200
        /\ sent[r] = <<"block", "peers", "detect">>

(***************************************************************************)
(* C7.  Check ordering with short-circuit: the queries are issued in the   *)
(* order block, peers, detection, /health, and the first check that fails  *)
(* ends the evaluation: with lag > max-seconds-behind no peer-count,       *)
(* detection or /health query is sent, and with peers < min-peers no       *)
(* detection or /health query is sent.                                     *)
(***************************************************************************)
C7_ShortCircuit ==
    \A r \in Requests :
        build = "int" =>
            /\ IsPrefix(sent[r], QueryOrder)
            /\ (obs[r].block = "ok" /\ ~LagWithinBound(r))
                   => sent[r] = <<"block">>
            /\ (obs[r].peer = "ok" /\ ~PeersWithinBound(r))
                   => sent[r] = <<"block", "peers">>

(***************************************************************************)
(* C8.  Negative clock skew: with the block timestamp later than the       *)
(* observation time the lag computed by blockDelta is non-positive and     *)
(* the lag check passes, so with peers >= min-peers and a non-blocking     *)
(* sync signal the verdict is healthy, in the int and the uint64 variant.  *)
(***************************************************************************)
C8_NegativeSkew ==
    \A r \in Requests :
        (NodeHealthBuild /\ Answered(r) /\ obs[r].lag < 0
         /\ AllQueriesOk(r) /\ PeersWithinBound(r) /\ SignalNonBlocking(r))
            => loc[r].blockDelta <= 0 /\ healthy[r]

(***************************************************************************)
(* C9.  Idempotence and no carried state: two evaluations that made the    *)
(* same observations under the same thresholds returned the same verdict,  *)
(* whatever evaluations ran before or beside them.                         *)
(***************************************************************************)
C9_Idempotent ==
    \A r1, r2 \in Requests :
        (NodeHealthBuild /\ Answered(r1) /\ Answered(r2) /\ obs[r1] = obs[r2])
            => healthy[r1] = healthy[r2]

C9_Witness ==
    \E r1, r2 \in Requests :
        /\ r1 # r2
        /\ NodeHealthBuild /\ Answered(r1) /\ Answered(r2)
        /\ obs[r1] = obs[r2]
        /\ obs[r1].health = "ok"
        /\ healthy[r1] /\ healthy[r2]

(***************************************************************************)
(* C10.  Bounded response under a stuck node: a /ready request whose       *)
(* evaluation waits for an answer of the node is eventually answered.      *)
(***************************************************************************)
C10_BoundedResponse ==
    \A r \in Requests : Waiting(r) ~> Answered(r)

(***************************************************************************)
(* C11.  The process terminates only when it cannot bind its listening     *)
(* port: it has ended only by the log.Fatal that follows a failed          *)
(* ListenAndServe, never by a panic of main, and a handler that failed or  *)
(* panicked leaves the process serving.                                    *)
(***************************************************************************)
C11_TerminatesOnlyOnBind ==
    /\ Terminated => proc = "exited"
    /\ (\E r \in Requests : pc[r] # "idle") => proc = "serving"

(***************************************************************************)
(* C13.  Unexpected schema is unhealthy: for a node detected as            *)
(* Nethermind, a /health answer that is malformed JSON, or valid JSON      *)
(* without the node-health data (IsSyncing, Errors), gives the verdict     *)
(* unhealthy.                                                              *)
(***************************************************************************)
C13_UnexpectedSchema ==
    \A r \in Requests :
        (build = "int" /\ Answered(r) /\ ReportsNethermind(r)
         /\ obs[r].health = "ok"
         /\ (~obs[r].body.wellFormed \/ ~obs[r].body.present))
            => ~healthy[r] /\ code[r] = 503

(***************************************************************************)
(* C16.  checkNodeHealth with boolean sub-checks: a request in which the   *)
(* dial, the latest-block query or the peer-count query failed is never    *)
(* answered 200, whatever min-peers and max-seconds-behind are.            *)
(***************************************************************************)
C16_BoolFailureNeverOK ==
    \A r \in Requests :
        (build = "bool" /\ (BlockFailed(r) \/ PeerFailed(r))) => code[r] # 200

(***************************************************************************)
(* C17.  The lag comparison agrees with the verdict: an evaluation in      *)
(* which blockDelta found the lag greater than max-seconds-behind and      *)
(* logged the node as too far behind returns unhealthy.                    *)
(***************************************************************************)
C17_LagAgreesWithVerdict ==
    \A r \in Requests :
        (build = "int" /\ Answered(r) /\ loc[r].tooFar) => ~healthy[r]

(***************************************************************************)
(* C12.  Recovery after a failed evaluation: a request whose block query   *)
(* failed is answered 503; the process keeps serving, so that the next     *)
(* request can be issued; and a request issued after that one completed,   *)
(* for which the node answers every query within bounds (lag <= max,       *)
(* peers >= min, non-blocking sync signal), is answered 200.               *)
(***************************************************************************)
C12_Recovery ==
    \A r \in Requests :
        /\ (Answered(r) /\ BlockFailed(r))
               => ~healthy[r] /\ code[r] = 503 /\ proc = "serving"
        /\ r \in blockFailures => proc = "serving"
        /\ (r \in blockFailures /\ pc[r] = "idle") => ENABLED ReadinessHandler(r)
        /\ (r \in blockFailures /\ Answered(r) /\ AllQueriesOk(r)
            /\ LagWithinBound(r) /\ PeersWithinBound(r) /\ SignalNonBlocking(r))
               => healthy[r] /\ code[r] = 200

\* a request answered 200 in the place of an earlier one whose block query
\* had failed
C12_Witness ==
    \E r \in Requests :
        /\ r \in blockFailures /\ Answered(r) /\ AllQueriesOk(r)
        /\ LagWithinBound(r) /\ PeersWithinBound(r) /\ SignalNonBlocking(r)
        /\ obs[r].lag = maxSecondsBehind * TicksPerSecond
        /\ code[r] = 200

(***************************************************************************)
(* C14.  Polling program, shared verdict: while the program serves,        *)
(* exactly one evaluation loop runs and writes isNodeHealthy, and the      *)
(* value a /ready handler has read is the value that loop last wrote: it   *)
(* is true only if a loop is there to have written it.                     *)
(***************************************************************************)
C14_SharedVerdict ==
    /\ (build = "poll" /\ proc = "serving") => Cardinality(pollers) = 1
    /\ \A r \in Requests :
           (build = "poll" /\ Answered(r))
               => healthy[r] = isNodeHealthy /\ (healthy[r] => pollers # {})

(***************************************************************************)
(* C15.  Polling program, liveness: if the program serves and from some    *)
(* point on the node's /health reports every check as HEALTHY or           *)
(* DISABLED, then eventually a /ready request is answered 200.             *)
(***************************************************************************)
C15_PollingLiveness ==
    <>[](proc = "serving" /\ NodeAllHealthy)
        => <>(\E r \in Requests : Answered(r) /\ code[r] = 200)

(***************************************************************************)
(* C18.  Independence of concurrent probes: in every interleaving of       *)
(* several /ready requests, the locals of each evaluation hold what that   *)
(* request itself observed, and its verdict and status code are the ones   *)
(* its own observations give; another request's failed or unhealthy        *)
(* evaluation changes neither.                                             *)
(***************************************************************************)
C18_Independence ==
    \A r \in Requests :
        NodeHealthBuild =>
            /\ obs[r].block = "ok"
                   => loc[r].blockDelta = BlockDelta("ok", obs[r].lag).value
            /\ obs[r].peer = "ok" => loc[r].peerCount = obs[r].peers
            /\ Answered(r) => /\ healthy[r] = OwnVerdict(r)
                              /\ code[r] = StatusFor(OwnVerdict(r))

\* a request answered 200 beside one that failed and was answered 503
C18_Witness ==
    \E r1, r2 \in Requests :
        /\ r1 # r2 /\ NodeHealthBuild
        /\ Answered(r1) /\ BlockFailed(r1) /\ code[r1] = 503
        /\ Answered(r2) /\ AllQueriesOk(r2) /\ ReportsNethermind(r2)
        /\ sent[r2] = QueryOrder
        /\ code[r2] = 200

=============================================================================
